---------------------------- MODULE Spec2Model ----------------------------
(***************************************************************************)
(* pam-krb5: the authentication core (src/auth.c).                         *)
(*                                                                         *)
(* One behaviour is one call of pamk5_password_auth.  The configuration    *)
(* (struct pam_args, the build's feature macros, the caller's *creds) is   *)
(* fixed by Init; every external call (Kerberos library, PAM item store,   *)
(* conversation function, libc) is an input drawn from a small set at the  *)
(* step that makes the call.  pc is the position in pamk5_password_auth.   *)
(***************************************************************************)
EXTENDS Integers, Sequences, FiniteSets, TLC

(***************************************************************************)
(* Return codes.  PAM codes are those of <security/_pam_types.h>, Kerberos *)
(* codes those of <krb5.h>, HX509 codes those of <hx509_err.h>, errno      *)
(* values those of <errno.h>; all share the one int the code keeps them in *)
(* (retval), which is why they are numbers here.                           *)
(***************************************************************************)
PAM_SUCCESS == 0
PAM_SERVICE_ERR == 3
PAM_SYSTEM_ERR == 4
PAM_AUTH_ERR == 7
PAM_AUTHINFO_UNAVAIL == 9
PAM_USER_UNKNOWN == 10
PAM_NEW_AUTHTOK_REQD == 12
PAM_ACCT_EXPIRED == 13
PAM_CONV_ERR == 19

KRB5KDC_ERR_NAME_EXP == -1765328383
KRB5KDC_ERR_C_PRINCIPAL_UNKNOWN == -1765328378
KRB5KDC_ERR_KEY_EXP == -1765328361
KRB5KDC_ERR_PREAUTH_FAILED == -1765328360
KRB5KRB_AP_ERR_BAD_INTEGRITY == -1765328353
KRB5KRB_AP_ERR_MODIFIED == -1765328343
KRB5_PARSE_MALFORMED == -1765328250
KRB5_KDC_UNREACH == -1765328228
KRB5_CC_NOMEM == -1765328186
KRB5_REALM_CANT_RESOLVE == -1765328164

ENOENT == 2
ENOMEM == 12
EACCES == 13

\* What <hx509_err.h> defines (lines 33-35 include it when it exists).
HX509_NO_SLOT_CODE == 569984
HX509_NO_TOKEN_CODE == 569985

\* A NULL pointer, for the pointers the model keeps as strings.
NULL == "NULL"

\* Strings the code inspects are sequences of characters; NullStr is a NULL
\* char pointer.
NullStr == <<"(null)">>
NullPrinc == [name |-> NullStr, realm |-> NullStr]

\* The library's default realm (krb5.conf), the realm of args->realm when
\* it is configured, and the raw account name of the call.
DefaultRealm == <<"D">>
UserName == <<"a">>

\* creds_valid before line 536 assigns it (declared without initialiser).
UNINIT == -1

PAM_AUTHTOK == "PAM_AUTHTOK"
PAM_OLDAUTHTOK == "PAM_OLDAUTHTOK"
Slots == {PAM_AUTHTOK, PAM_OLDAUTHTOK}

\* Bound on the lines fgets returns from one .k5login.
MaxLines == 2

\* Bound on the calls of pamk5_fast_setup in one session.
MaxCalls == 3

\* The calls of pamk5_fast_setup that can be in progress on one session.
Procs == {1, 2}

\* fast.c line 39
KRB5KDC_ERR_BADOPTION == -1765328371

\* fast.c line 55: the NULL krb5_ccache.
NoCcache == 0

\* uids: root, and two accounts.
Uids == {0, 1000, 1001}

VARIABLES
    build,       \* feature macros: [pkinit, hx509]
    args,        \* struct pam_args: the configuration of the call
    service,     \* the service argument: NULL or "kadmin/changepw"
    ctx,         \* struct context: [name, princ]
    pam_item,    \* the PAM item store: slot -> NULL | "prev" | "typed"
    errno,       \* libc's errno
    pc,          \* position in pamk5_password_auth
    retval, retry, success, creds_valid, pass, opts,
    creds,       \* *creds: NULL | "caller" | "alloc"
    res,         \* resources of the call: credential struct, contents, options
    k5file,      \* the lines of the account's .k5login
    k5,          \* k5login_password_auth: the state of its current call
    hist,        \* what has happened in the call (observation only)
    ret,         \* the value returned, once pc = "returned"
    fbuild,      \* feature macros of fast.c: [fast, anon, out_ccache]
    fcfg,        \* args->config: [fast_ccache, anon_fast]
    anon_fast_ccache,  \* args->config->ctx->anon_fast_ccache: a cache or NoCcache
    caches,      \* the armor caches created so far, by number
    fp,          \* the calls of pamk5_fast_setup: position, locals, record
    ncalls       \* the number of calls of pamk5_fast_setup so far

\* The FAST armor of the session.
armor == <<fbuild, fcfg, anon_fast_ccache, caches, fp, ncalls>>

\* The call of pamk5_password_auth.
auth == <<build, args, service, k5file, ctx, pam_item, errno, pc, retval,
          retry, success, creds_valid, pass, opts, creds, res, k5, hist, ret>>

vars == <<auth, armor>>

\* What a call of pamk5_password_auth is given and never writes.
config == <<build, args, service, k5file, armor>>

locals == <<retval, retry, success, creds_valid, pass, opts>>

----------------------------------------------------------------------------
(* Strings *)

HasAt(s) == \E i \in 1..Len(s) : s[i] = "@"

AtPos(s) == CHOOSE i \in 1..Len(s) : s[i] = "@" /\ \A j \in 1..(i-1) : s[j] # "@"

\* Line 100 without the realm: newuser is the name alone.
AppendRealm_NoRealm(user, realm) == user

\* snprintf(newuser, length, "%s@%s", user, args->realm)
AppendRealm(user, realm) == user \o <<"@">> \o realm

\* krb5_parse_name on a well-formed name: the part before '@' is the name,
\* the part after it the realm; without '@' the realm is the default realm.
ParsedPrincipal(user) ==
    IF HasAt(user)
    THEN [name |-> SubSeq(user, 1, AtPos(user) - 1),
          realm |-> SubSeq(user, AtPos(user) + 1, Len(user))]
    ELSE [name |-> user, realm |-> DefaultRealm]

----------------------------------------------------------------------------
(* Values of the external calls *)

\* What an exchange with the KDC (krb5_get_init_creds_password) can return.
ExchangeCodes ==
    {0, KRB5KRB_AP_ERR_BAD_INTEGRITY, KRB5_KDC_UNREACH, KRB5_REALM_CANT_RESOLVE,
     KRB5KDC_ERR_C_PRINCIPAL_UNKNOWN, KRB5KDC_ERR_KEY_EXP, KRB5KDC_ERR_NAME_EXP,
     KRB5KDC_ERR_PREAUTH_FAILED}

\* What krb5_verify_init_creds can return.
VerifyCodes == {0, KRB5KRB_AP_ERR_MODIFIED, KRB5_KDC_UNREACH}

\* lines 41-46: the PKINIT smart card statuses are 0 when not defined.
HX509_PKCS11_NO_TOKEN == IF build.hx509 THEN HX509_NO_TOKEN_CODE ELSE 0
HX509_PKCS11_NO_SLOT == IF build.hx509 THEN HX509_NO_SLOT_CODE ELSE 0

\* What the PKINIT exchange can return: the smart card statuses exist only
\* in a library that ships <hx509_err.h>.
PkinitCodes ==
    {0, KRB5_KDC_UNREACH, KRB5KDC_ERR_PREAUTH_FAILED}
        \cup (IF build.hx509 THEN {HX509_NO_TOKEN_CODE, HX509_NO_SLOT_CODE} ELSE {})

\* Line 480 with PAM_AUTHTOK whatever the service.
authtok_Always == PAM_AUTHTOK

\* line 480
authtok == IF service = NULL THEN PAM_AUTHTOK ELSE PAM_OLDAUTHTOK

----------------------------------------------------------------------------
(* The state at the call of pamk5_password_auth *)

Builds ==
    {[pkinit |-> FALSE, hx509 |-> FALSE],
     [pkinit |-> TRUE, hx509 |-> FALSE],
     [pkinit |-> TRUE, hx509 |-> TRUE]}

NoResources ==
    [cred_alloc |-> 0, cred_free |-> 0, cont_fill |-> 0, cont_free |-> 0,
     opt_alloc |-> 0, opt_free |-> 0, caller_free |-> 0]

\* hist: the number of reads of the stored password, password prompts,
\* password exchanges, pkinit_auth calls, verify_creds calls and rounds of the
\* loop so far; whether some exchange succeeded and whether verify_creds did;
\* what pkinit_auth returned; lastk5, the code the last acquisition or
\* verification step ended with (0 once the call has moved on to another
\* attempt); closed, whether a round ended in success or in a failure other
\* than KRB5KRB_AP_ERR_BAD_INTEGRITY; whether the call wrote *creds; whether
\* .k5login had a foreign owner; whether use_authtok found no password;
\* what parse_name saw.
NoHistory ==
    [reads |-> 0, prompts |-> 0, exch |-> 0, pkinit |-> 0, verify |-> 0,
     rounds |-> 0, acq_ok |-> FALSE, ver_ok |-> FALSE, pkret |-> 0,
     lastk5 |-> 0, closed |-> FALSE, assigned |-> FALSE, badowner |-> FALSE,
     nostored |-> FALSE,
     pk |-> [step |-> "none", code |-> 0, creds |-> NULL, open |-> 0],
     parse |-> [user |-> NullStr, name0 |-> NullStr, map |-> "none",
                kuser |-> NullStr, dup |-> FALSE]]

\* The principals a line of .k5login can name.
Candidates ==
    {[name |-> <<"a">>, realm |-> <<"O">>], [name |-> <<"a">>, realm |-> <<"D">>]}

\* What fgets and krb5_parse_name make of a line of .k5login: a line with no
\* newline within the buffer (skipped up to the next newline), a line that
\* does not parse, or a line naming a principal.
Lines ==
    {[kind |-> k, princ |-> NullPrinc] : k \in {"unterminated", "unparseable"}}
        \cup {[kind |-> "candidate", princ |-> p] : p \in Candidates}

FilesUpTo(n) == UNION {[1..k -> Lines] : k \in 0..n}

\* The trust files of the calls that are not about the trust file: none, one
\* with a line of each kind that is skipped, one with two candidates.
SampleFiles ==
    {<<>>,
     <<[kind |-> "unparseable", princ |-> NullPrinc],
       [kind |-> "candidate", princ |-> [name |-> <<"a">>, realm |-> <<"D">>]]>>,
     <<[kind |-> "unterminated", princ |-> NullPrinc],
       [kind |-> "candidate", princ |-> [name |-> <<"a">>, realm |-> <<"O">>]],
       [kind |-> "candidate", princ |-> [name |-> <<"a">>, realm |-> <<"D">>]]>>}

\* k5: whether the file is open, the lines read, the candidates tried with
\* the outcome of each, the principals released, ctx->princ and the number of
\* exchanges at the call, whether fstat showed a foreign owner, and whether
\* the lines of the file were gone through.
NoK5 ==
    [open |-> FALSE, nlines |-> 0, tried |-> <<>>, freed |-> <<>>,
     princ0 |-> NullPrinc, exch0 |-> 0, foreign |-> FALSE, read |-> FALSE]

\* The names a FAST option can be given: none, the configured cache, or the
\* full name of an anonymous cache.
NoName == [kind |-> "none", id |-> NoCcache]
ConfName == [kind |-> "configured", id |-> NoCcache]
AnonName(c) == [kind |-> "anon", id |-> c]

FastBuilds ==
    {[fast |-> FALSE, anon |-> FALSE, out_ccache |-> FALSE],
     [fast |-> TRUE, anon |-> FALSE, out_ccache |-> FALSE],
     [fast |-> TRUE, anon |-> TRUE, out_ccache |-> FALSE],
     [fast |-> TRUE, anon |-> TRUE, out_ccache |-> TRUE]}

\* A call of pamk5_fast_setup that is not running.  valid, cache, ccache:
\* the locals; seen: the handle as line 210 read it; and for the record the
\* handle at the call and at its end, whether the configured cache was
\* found valid, whether cache_init_anonymous was called and the cache it
\* gave, the caches the call destroyed at line 211, the name the setter of
\* the FAST option was called with, the name the option was set to, and the
\* number of the call.
IdleCall ==
    [pc |-> "idle", valid |-> FALSE, cache |-> NoName, ccache |-> NoCcache,
     seen |-> NoCcache, h0 |-> NoCcache, hend |-> NoCcache,
     conf_ok |-> FALSE, tried_anon |-> FALSE, retval |-> 0,
          made |-> NoCcache,
     destroyed |-> <<>>, asked |-> NoName, opt |-> NoName, seq |-> 0]

\* A session on which pamk5_fast_setup has not been called.
NoArmor ==
    /\ anon_fast_ccache = NoCcache
    /\ caches = <<>>
    /\ fp = [p \in Procs |-> IdleCall]
    /\ ncalls = 0

\* The armor of a call that is not about FAST: a session on which
\* pamk5_fast_setup is not called.
Unarmored ==
    /\ fbuild = [fast |-> TRUE, anon |-> TRUE, out_ccache |-> TRUE]
    /\ fcfg = [fast_ccache |-> NULL, anon_fast |-> FALSE]
    /\ NoArmor

\* The locals of pamk5_password_auth and the bookkeeping at its entry.
Started ==
    /\ errno = 0
    /\ pc = "start"
    /\ retval = 0
    /\ retry = 0
    /\ success = 0
    /\ creds_valid = UNINIT
    /\ pass = NULL
    /\ opts = NULL
    /\ res = NoResources
    /\ k5 = NoK5
    /\ hist = NoHistory
    /\ ret = UNINIT

Init ==
    /\ build \in Builds
    /\ args \in [ctx : BOOLEAN, use_pkinit : BOOLEAN, try_pkinit : BOOLEAN,
                 try_first_pass : BOOLEAN, use_first_pass : BOOLEAN,
                 use_authtok : BOOLEAN, search_k5login : BOOLEAN,
                 prompt_princ : {FALSE}, realm : {NullStr}]
    /\ service \in {NULL, "kadmin/changepw"}
    /\ ctx = [name |-> UserName, princ |-> NullPrinc]
    /\ pam_item \in [Slots -> {NULL, "prev"}]
    /\ k5file \in IF args.search_k5login THEN SampleFiles ELSE {<<>>}
    /\ creds \in {NULL, "caller"}
    /\ Started
    /\ Unarmored

\* Calls that search the trust file, with every file of up to MaxLines
\* lines: password authentication only, in the build without PKINIT.
InitK5 ==
    /\ build = [pkinit |-> FALSE, hx509 |-> FALSE]
    /\ args \in [ctx : {TRUE}, use_pkinit : {FALSE}, try_pkinit : {FALSE},
                 try_first_pass : BOOLEAN, use_first_pass : BOOLEAN,
                 use_authtok : {FALSE}, search_k5login : BOOLEAN,
                 prompt_princ : {FALSE}, realm : {NullStr}]
    /\ service \in {NULL, "kadmin/changepw"}
    /\ ctx = [name |-> UserName, princ |-> NullPrinc]
    /\ pam_item \in {[s \in Slots |-> NULL], [s \in Slots |-> "prev"]}
    /\ k5file \in IF args.search_k5login THEN FilesUpTo(MaxLines) ELSE {<<>>}
    /\ creds = NULL
    /\ Started
    /\ Unarmored

\* Calls over the names parse_name can be given: an account name with and
\* without a realm, a realm option set or not, the principal prompt on or
\* off; password authentication only, in the build without PKINIT.
InitParse ==
    /\ build = [pkinit |-> FALSE, hx509 |-> FALSE]
    /\ args \in [ctx : {TRUE}, use_pkinit : {FALSE}, try_pkinit : {FALSE},
                 try_first_pass : {FALSE}, use_first_pass : {FALSE},
                 use_authtok : {FALSE}, search_k5login : BOOLEAN,
                 prompt_princ : BOOLEAN, realm : {NullStr, <<"R">>}]
    /\ service = NULL
    /\ ctx \in [name : {UserName, <<"a", "@", "X">>}, princ : {NullPrinc}]
    /\ pam_item = [s \in Slots |-> NULL]
    /\ k5file \in IF args.search_k5login
                   THEN {f \in SampleFiles : Len(f) = 2} ELSE {<<>>}
    /\ creds = NULL
    /\ Started
    /\ Unarmored

\* return v;
Return(v) == pc' = "returned" /\ ret' = v

----------------------------------------------------------------------------
(* pamk5_password_auth, lines 482-492, and parse_name *)

Entry ==
    /\ pc = "start"
    /\ IF ~args.ctx
       THEN Return(PAM_SERVICE_ERR)
       ELSE pc' = "parse" /\ ret' = ret
    /\ UNCHANGED <<config, ctx, pam_item, errno, locals, creds,
                   res, k5, hist>>

\* Line 113 testing the name that was parsed instead of ctx->name.
LocalNameWanted_User(name, user) == HasAt(user)

\* line 113: the local name is looked up when the name PAM gave has an '@'.
LocalNameWanted(name, user) == HasAt(name)

\* parse_name.  conv: what the principal prompt hands back (NullStr when
\* pamk5_conv fails and leaves user alone); malloc_ok: malloc of newuser;
\* k5_errno: krb5_parse_name; lname: krb5_aname_to_localname ("fail", or
\* the name it maps the principal to); strdup_ok: strdup of kuser.
\* Yields the return value and the new context, and for the record the name
\* that was parsed, what krb5_aname_to_localname did ("none" when it was not
\* called), the name it gave and whether strdup copied it.
parse_name(conv, malloc_ok, k5_errno, lname, strdup_ok) ==
    LET prompted == IF args.prompt_princ /\ conv # NullStr THEN conv ELSE ctx.name
        user == IF prompted = <<>> THEN ctx.name ELSE prompted
        addRealm == args.realm # NullStr /\ ~HasAt(user)
        full == IF addRealm THEN AppendRealm(user, args.realm) ELSE user
        princ == IF k5_errno = 0 THEN ParsedPrincipal(full) ELSE ctx.princ
        kuser == IF lname = "self" THEN princ.name ELSE <<"m">>
        seen == [user |-> user, name0 |-> ctx.name, map |-> "none",
                 kuser |-> NullStr, dup |-> FALSE]
    IN  IF addRealm /\ ~malloc_ok
        THEN [ret |-> KRB5_CC_NOMEM, ctx |-> ctx, seen |-> seen]
        ELSE IF k5_errno = 0 /\ LocalNameWanted(ctx.name, user)
        THEN IF lname = "fail"
             THEN [ret |-> 0, ctx |-> [ctx EXCEPT !.princ = princ],
                   seen |-> [seen EXCEPT !.map = "fail"]]
             ELSE IF ~strdup_ok
             THEN [ret |-> 0, ctx |-> [ctx EXCEPT !.princ = princ],
                   seen |-> [seen EXCEPT !.map = "ok", !.kuser = kuser]]
             ELSE [ret |-> k5_errno, ctx |-> [name |-> kuser, princ |-> princ],
                   seen |-> [seen EXCEPT !.map = "ok", !.kuser = kuser,
                                         !.dup = TRUE]]
        ELSE [ret |-> k5_errno, ctx |-> [ctx EXCEPT !.princ = princ],
              seen |-> seen]

\* lines 487-492
ParseName ==
    /\ pc = "parse"
    /\ \E conv \in {NullStr, <<>>, <<"b">>, <<"b", "@", "Y">>},
          malloc_ok \in BOOLEAN, k5_errno \in {0, KRB5_PARSE_MALFORMED},
          lname \in {"fail", "self", "mapped"}, strdup_ok \in BOOLEAN :
          LET r == parse_name(conv, malloc_ok, k5_errno, lname, strdup_ok)
          IN  /\ ctx' = r.ctx
              /\ retval' = r.ret
              /\ hist' = [hist EXCEPT !.parse = r.seen]
              /\ IF r.ret # 0
                 THEN Return(PAM_SERVICE_ERR)
                 ELSE pc' = "pkinit" /\ ret' = ret
    /\ UNCHANGED <<config, pam_item, errno, retry, success,
                   creds_valid, pass, opts, creds, res, k5>>

----------------------------------------------------------------------------
(* PKINIT, lines 307-392 and 507-528 *)

\* pkinit_auth.  calloc_ok: calloc of *creds; opt_code:
\* krb5_get_init_creds_opt_alloc; set_code: krb5_get_init_creds_opt_set_pkinit;
\* exch_code: the exchange with a NULL password.  Yields the return value,
\* *creds, the resources, whether the exchange ran and the last step taken
\* with the code that step gave.  (The "insert smart card" notice of lines
\* 348-354 reads no password and its answer is ignored.)
pkinit_auth(calloc_ok, opt_code, set_code, exch_code) ==
    IF ~calloc_ok
    THEN [retval |-> ENOMEM, creds |-> NULL, res |-> res, exch |-> FALSE,
          step |-> "calloc", code |-> ENOMEM]
    ELSE LET r1 == [res EXCEPT !.cred_alloc = @ + 1]
         IN  IF opt_code # 0
             THEN \* line 365: returns with *creds still allocated
                  [retval |-> opt_code, creds |-> "alloc", res |-> r1,
                   exch |-> FALSE, step |-> "opt_alloc", code |-> opt_code]
             ELSE LET r2 == [r1 EXCEPT !.opt_alloc = @ + 1]
                      rv == IF set_code # 0 THEN set_code ELSE exch_code
                      ran == set_code = 0
                      st == IF ran THEN "exchange" ELSE "set_pkinit"
                      r3 == [r2 EXCEPT !.opt_free = @ + 1,
                                       !.cont_fill = IF ran /\ rv = 0
                                                     THEN @ + 1 ELSE @]
                  IN  IF rv # 0
                      THEN [retval |-> rv, creds |-> NULL,
                            res |-> [r3 EXCEPT !.cred_free = @ + 1],
                            exch |-> ran, step |-> st, code |-> rv]
                      ELSE [retval |-> rv, creds |-> "alloc", res |-> r3,
                            exch |-> ran, step |-> st, code |-> rv]

\* Lines 516-521 without line 520: "no token" falls through to the password
\* path even when use_pkinit is set.
PkinitGotoDone_NoMandatory(rv) ==
    \/ rv = 0
    \/ (rv # HX509_PKCS11_NO_TOKEN /\ rv # HX509_PKCS11_NO_SLOT)

\* lines 516-521: the gotos after pkinit_auth returned rv.
PkinitGotoDone(rv) ==
    \/ rv = 0
    \/ (rv # HX509_PKCS11_NO_TOKEN /\ rv # HX509_PKCS11_NO_SLOT)
    \/ (rv # 0 /\ args.use_pkinit)

\* Lines 524-527 faking a pre-authentication failure instead.
PkinitUnavailableCode_Preauth == KRB5KDC_ERR_PREAUTH_FAILED

\* lines 524-527: the code faked when PKINIT is mandatory and not built in.
PkinitUnavailableCode == KRB5_KDC_UNREACH

\* lines 513-528
PkinitTry ==
    /\ pc = "pkinit"
    /\ IF build.pkinit
       THEN IF args.use_pkinit \/ args.try_pkinit
            THEN \E calloc_ok \in BOOLEAN, opt_code \in {0, ENOMEM},
                    set_code \in {0, ENOENT}, exch_code \in PkinitCodes :
                    LET r == pkinit_auth(calloc_ok, opt_code, set_code, exch_code)
                    IN  /\ retval' = r.retval
                        /\ creds' = r.creds
                        /\ res' = r.res
                        /\ hist' = [hist EXCEPT
                                      !.pkinit = @ + 1,
                                      !.assigned = TRUE,
                                      !.acq_ok = @ \/ (r.exch /\ r.retval = 0),
                                      !.pkret = r.retval,
                                      !.pk = [step |-> r.step,
                                              code |-> r.code,
                                              creds |-> r.creds,
                                              open |-> (r.res.opt_alloc
                                                        - r.res.opt_free)
                                                       - (res.opt_alloc
                                                          - res.opt_free)],
                                      !.lastk5 = r.retval]
                        /\ pc' = IF PkinitGotoDone(r.retval) THEN "done"
                                 ELSE "alloc"
            ELSE pc' = "alloc" /\ UNCHANGED <<retval, creds, res, hist>>
       ELSE IF args.use_pkinit
            THEN /\ retval' = PkinitUnavailableCode
                 /\ pc' = "done"
                 /\ UNCHANGED <<creds, res, hist>>
            ELSE pc' = "alloc" /\ UNCHANGED <<retval, creds, res, hist>>
    /\ UNCHANGED <<config, ctx, pam_item, errno, retry, success,
                   creds_valid, pass, opts, k5, ret>>

----------------------------------------------------------------------------
(* The password path, lines 530-607 *)

\* lines 530-536
AllocCreds ==
    /\ pc = "alloc"
    /\ \E calloc_ok \in BOOLEAN :
          IF ~calloc_ok
          THEN /\ creds' = NULL
               /\ errno' = ENOMEM
               /\ Return(PAM_SERVICE_ERR)
               /\ UNCHANGED <<creds_valid, res>>
          ELSE /\ creds' = "alloc"
               /\ creds_valid' = 0
               /\ res' = [res EXCEPT !.cred_alloc = @ + 1]
               /\ pc' = "optalloc"
               /\ UNCHANGED <<errno, ret>>
    /\ hist' = [hist EXCEPT !.assigned = TRUE, !.lastk5 = 0]
    /\ UNCHANGED <<config, ctx, pam_item, retval, retry, success,
                   pass, opts, k5>>

\* lines 537-542
OptAlloc ==
    /\ pc = "optalloc"
    /\ \E code \in {0, ENOMEM} :
          /\ retval' = code
          /\ IF code # 0
             THEN pc' = "done" /\ UNCHANGED <<opts, res>>
             ELSE /\ opts' = "alloc"
                  /\ res' = [res EXCEPT !.opt_alloc = @ + 1]
                  /\ pc' = "getpass"
    /\ UNCHANGED <<config, ctx, pam_item, errno, retry, success,
                   creds_valid, pass, creds, k5, hist, ret>>

\* line 556: whether a stored password is asked for.
WantStored == args.try_first_pass \/ args.use_first_pass \/ args.use_authtok

\* line 558: use_authtok and no stored password.
NoStoredPassword(rv, pw) == args.use_authtok /\ (rv # PAM_SUCCESS \/ pw = NULL)

\* line 555
InitialRetry == IF args.try_first_pass THEN 1 ELSE 0

\* lines 555-562.  get: what pam_get_item returns.
GetPass ==
    /\ pc = "getpass"
    /\ retry' = InitialRetry
    /\ \E get \in {PAM_SUCCESS, PAM_SYSTEM_ERR} :
          LET rv == IF WantStored THEN get ELSE retval
              pw == IF WantStored /\ get = PAM_SUCCESS THEN pam_item[authtok]
                    ELSE pass
          IN  /\ pass' = pw
              /\ hist' = [hist EXCEPT
                            !.reads = IF WantStored THEN @ + 1 ELSE @,
                            !.nostored = args.use_authtok
                                         /\ (get # PAM_SUCCESS
                                             \/ pam_item[authtok] = NULL)]
              /\ IF NoStoredPassword(rv, pw)
                 THEN retval' = PAM_SERVICE_ERR /\ pc' = "done"
                 ELSE retval' = rv /\ pc' = "loop"
    /\ UNCHANGED <<config, ctx, pam_item, errno, success,
                   creds_valid, opts, creds, res, k5, ret>>

\* Line 567 left out: the prompt leaves retry as it was.
RetryAfterPrompt_Kept(rt) == rt

\* line 567: asking for a password uses up the retry.
RetryAfterPrompt(rt) == 0

\* lines 564-585: the top of the loop.  got: pamk5_get_password; set:
\* pam_set_item.  The pam_get_item of line 584 reads back the item that
\* line 576 has just stored.
LoopHead ==
    /\ pc = "loop"
    /\ IF pass # NULL
       THEN pc' = "acquire" /\ UNCHANGED <<retval, retry, pass, pam_item, hist>>
       ELSE /\ retry' = RetryAfterPrompt(retry)
            /\ hist' = [hist EXCEPT !.prompts = @ + 1, !.lastk5 = 0]
            /\ \E got \in {PAM_SUCCESS, PAM_CONV_ERR},
                  set \in {PAM_SUCCESS, PAM_SYSTEM_ERR} :
                  IF got # PAM_SUCCESS
                  THEN /\ retval' = PAM_SERVICE_ERR
                       /\ pc' = "done"
                       /\ UNCHANGED <<pass, pam_item>>
                  ELSE IF set # PAM_SUCCESS
                  THEN /\ retval' = PAM_SERVICE_ERR
                       /\ pass' = "freed"
                       /\ pc' = "done"
                       /\ UNCHANGED pam_item
                  ELSE /\ retval' = set
                       /\ pam_item' = [pam_item EXCEPT ![authtok] = "typed"]
                       /\ pass' = pam_item'[authtok]
                       /\ pc' = "acquire"
    /\ UNCHANGED <<config, ctx, errno, success, creds_valid,
                   opts, creds, res, k5, ret>>

\* What an exchange that returned code leaves in hist and res: one more
\* exchange, and on success a credential filled in.
Exchanged(h, code) ==
    [h EXCEPT !.exch = @ + 1, !.acq_ok = @ \/ code = 0, !.lastk5 = code]

Filled(r, code) == IF code = 0 THEN [r EXCEPT !.cont_fill = @ + 1] ELSE r

\* line 595 and line 237
SuccessOf(code) == IF code = 0 THEN PAM_SUCCESS ELSE PAM_AUTH_ERR

\* lines 591-596: the direct exchange, trust-file search off.
AcquireDirect ==
    /\ pc = "acquire"
    /\ ~args.search_k5login
    /\ \E code \in ExchangeCodes :
          /\ retval' = code
          /\ success' = SuccessOf(code)
          /\ hist' = [Exchanged(hist, code) EXCEPT !.rounds = @ + 1]
          /\ res' = Filled(res, code)
    /\ pc' = "after"
    /\ UNCHANGED <<config, ctx, pam_item, errno, retry,
                   creds_valid, pass, opts, creds, k5, ret>>

----------------------------------------------------------------------------
(* k5login_password_auth, lines 202-304 *)

\* Line 255 with no test: any owner will do.
OwnerOk_Any(st_uid, pw_uid) == TRUE

\* line 255: root or the account must own .k5login.
OwnerOk(st_uid, pw_uid) == st_uid = 0 \/ st_uid = pw_uid

\* Line 266 with another code.
NoCandidateCode_Unreach == KRB5_KDC_UNREACH

\* line 266: the error reported when no line is tried.
NoCandidateCode == KRB5KRB_AP_ERR_BAD_INTEGRITY

\* Line 287 never true: an exchange that succeeded does not end the search.
K5Success_Never(code) == FALSE

\* line 287: the exchange for a candidate succeeded.
K5Success(code) == code = 0

\* Line 283 keeping the error of an earlier line: a failure does not
\* replace a code other than the one set before the loop.
K5Report_First(old, code) ==
    IF code = 0 \/ old = NoCandidateCode THEN code ELSE old

\* line 283: *retval is what the exchange for this line returned.
K5Report(old, code) == code

\* lines 223-266: up to the first fgets.  found: getpwnam, the malloc of
\* filename and access(R_OK) all succeeded; code: the exchange of line 234;
\* e: errno as the successful libc calls leave it (untouched, or some value
\* other than 0); fopen_ok, fstat_ok: fopen and fstat; st_uid, pw_uid: the
\* file's owner and the account's uid.
K5Begin ==
    /\ pc = "acquire"
    /\ args.search_k5login
    /\ LET call == [NoK5 EXCEPT !.princ0 = ctx.princ, !.exch0 = hist.exch]
       IN  \E found \in BOOLEAN :
              IF ~found
              THEN \E code \in ExchangeCodes :
                      /\ retval' = code
                      /\ success' = SuccessOf(code)
                      /\ hist' = [Exchanged(hist, code) EXCEPT
                                     !.rounds = @ + 1]
                      /\ res' = Filled(res, code)
                      /\ k5' = call
                      /\ pc' = "after"
                      /\ UNCHANGED errno
              ELSE \E fopen_ok \in BOOLEAN, fstat_ok \in BOOLEAN :
                      IF ~fopen_ok \/ ~fstat_ok
                      THEN /\ errno' = EACCES
                           /\ retval' = errno'
                           /\ success' = PAM_AUTH_ERR
                           /\ hist' = [hist EXCEPT !.rounds = @ + 1,
                                                   !.lastk5 = retval']
                           /\ k5' = call
                           /\ pc' = "after"
                           /\ UNCHANGED res
                      ELSE \E e \in {errno, ENOENT},
                              st_uid \in Uids, pw_uid \in Uids :
                              LET foreign == st_uid # 0 /\ st_uid # pw_uid
                              IN  /\ errno' = e
                                  /\ IF ~OwnerOk(st_uid, pw_uid)
                                     THEN /\ retval' = errno'
                                          /\ success' = PAM_AUTH_ERR
                                          /\ k5' = [call EXCEPT
                                                      !.foreign = foreign]
                                          /\ pc' = "after"
                                     ELSE /\ retval' = NoCandidateCode
                                          /\ k5' = [call EXCEPT
                                                      !.open = TRUE,
                                                      !.foreign = foreign,
                                                      !.read = TRUE]
                                          /\ pc' = "k5line"
                                          /\ UNCHANGED success
                                  /\ hist' = [hist EXCEPT
                                                 !.rounds = @ + 1,
                                                 !.lastk5 = retval',
                                                 !.badowner = @ \/ foreign]
                                  /\ UNCHANGED res
    /\ UNCHANGED <<config, ctx, pam_item, retry, creds_valid, pass, opts,
                   creds, ret>>

\* lines 267-304: one pass of the loop over the lines of .k5login, or its
\* end.  The next line is the one after those already read; code: the
\* exchange of line 283 for the principal a parseable line names.
K5Line ==
    /\ pc = "k5line"
    /\ IF k5.nlines >= Len(k5file)
       THEN /\ k5' = [k5 EXCEPT !.open = FALSE]
            /\ success' = PAM_AUTH_ERR
            /\ pc' = "after"
            /\ UNCHANGED <<retval, ctx, hist, res>>
       ELSE LET line == k5file[k5.nlines + 1]
            IN  IF line.kind # "candidate"
                THEN /\ k5' = [k5 EXCEPT !.nlines = @ + 1]
                     /\ UNCHANGED <<pc, retval, success, ctx, hist, res>>
                ELSE \E code \in ExchangeCodes :
                        /\ retval' = K5Report(retval, code)
                        /\ hist' = Exchanged(hist, code)
                        /\ res' = Filled(res, code)
                        /\ IF K5Success(code)
                           THEN /\ ctx' = [ctx EXCEPT !.princ = line.princ]
                                /\ k5' = [k5 EXCEPT
                                            !.open = FALSE,
                                            !.nlines = @ + 1,
                                            !.tried = Append(@,
                                                [princ |-> line.princ,
                                                 ok |-> code = 0,
                                                 code |-> code]),
                                            !.freed = Append(@, ctx.princ)]
                                /\ success' = PAM_SUCCESS
                                /\ pc' = "after"
                           ELSE /\ k5' = [k5 EXCEPT
                                            !.nlines = @ + 1,
                                            !.tried = Append(@,
                                                [princ |-> line.princ,
                                                 ok |-> code = 0,
                                                 code |-> code]),
                                            !.freed = Append(@, line.princ)]
                                /\ UNCHANGED <<pc, success, ctx>>
    /\ UNCHANGED <<config, pam_item, errno, retry, creds_valid, pass, opts,
                   creds, ret>>

----------------------------------------------------------------------------
(* The end of the loop and the exit, lines 597-655 *)

\* Line 603 without the test of retval: any failure is retried.
LoopAgain_AnyFailure(rt, rv) == rt # 0

\* Line 603 without the test of retry: a mismatch always goes back.
LoopAgain_IgnoreRetry(rt, rv) == rv = KRB5KRB_AP_ERR_BAD_INTEGRITY

\* line 603: the loop condition.
LoopAgain(rt, rv) == rt # 0 /\ rv = KRB5KRB_AP_ERR_BAD_INTEGRITY

\* lines 597-607
LoopTail ==
    /\ pc = "after"
    /\ hist' = [hist EXCEPT
                  !.closed = @ \/ success = PAM_SUCCESS
                               \/ retval # KRB5KRB_AP_ERR_BAD_INTEGRITY]
    /\ IF success = PAM_SUCCESS
       THEN /\ pc' = "done"
            /\ creds_valid' = IF retval # 0 THEN creds_valid ELSE 1
            /\ pass' = pass
       ELSE /\ pass' = NULL
            /\ IF LoopAgain(retry, retval)
               THEN pc' = "loop" /\ creds_valid' = creds_valid
               ELSE /\ pc' = "done"
                    /\ creds_valid' = IF retval # 0 THEN creds_valid ELSE 1
    /\ UNCHANGED <<config, ctx, pam_item, errno, retval, retry,
                   success, opts, creds, res, k5, ret>>

\* Line 617 without the test of service.
NeedVerify_AnyService(rv, svc) == rv = 0

\* line 617: whether the credentials are verified.
NeedVerify(rv, svc) == rv = 0 /\ svc = NULL

\* lines 609-618.  code: what verify_creds (krb5_verify_init_creds) returns.
Verify ==
    /\ pc = "done"
    /\ IF NeedVerify(retval, service)
       THEN \E code \in VerifyCodes :
               /\ retval' = code
               /\ hist' = [hist EXCEPT !.verify = @ + 1,
                                       !.ver_ok = code = 0,
                                       !.lastk5 = code]
       ELSE UNCHANGED <<retval, hist>>
    /\ pc' = "finish"
    /\ UNCHANGED <<config, ctx, pam_item, errno, retry, success,
                   creds_valid, pass, opts, creds, res, k5, ret>>

\* The switch of lines 633-650 without the case of line 643.
PamMap_NoUnreach(rv) ==
    CASE rv = KRB5KDC_ERR_C_PRINCIPAL_UNKNOWN -> PAM_USER_UNKNOWN
      [] rv = KRB5KDC_ERR_KEY_EXP -> PAM_NEW_AUTHTOK_REQD
      [] rv = KRB5KDC_ERR_NAME_EXP -> PAM_ACCT_EXPIRED
      [] rv = KRB5_REALM_CANT_RESOLVE -> PAM_AUTHINFO_UNAVAIL
      [] OTHER -> PAM_AUTH_ERR

\* The switch of lines 633-650 with PAM_SERVICE_ERR as its default.
PamMap_DefaultService(rv) ==
    CASE rv = KRB5KDC_ERR_C_PRINCIPAL_UNKNOWN -> PAM_USER_UNKNOWN
      [] rv = KRB5KDC_ERR_KEY_EXP -> PAM_NEW_AUTHTOK_REQD
      [] rv = KRB5KDC_ERR_NAME_EXP -> PAM_ACCT_EXPIRED
      [] rv = KRB5_KDC_UNREACH -> PAM_AUTHINFO_UNAVAIL
      [] rv = KRB5_REALM_CANT_RESOLVE -> PAM_AUTHINFO_UNAVAIL
      [] OTHER -> PAM_SERVICE_ERR

\* lines 633-650: the switch.
PamMap(rv) ==
    CASE rv = KRB5KDC_ERR_C_PRINCIPAL_UNKNOWN -> PAM_USER_UNKNOWN
      [] rv = KRB5KDC_ERR_KEY_EXP -> PAM_NEW_AUTHTOK_REQD
      [] rv = KRB5KDC_ERR_NAME_EXP -> PAM_ACCT_EXPIRED
      [] rv = KRB5_KDC_UNREACH -> PAM_AUTHINFO_UNAVAIL
      [] rv = KRB5_REALM_CANT_RESOLVE -> PAM_AUTHINFO_UNAVAIL
      [] OTHER -> PAM_AUTH_ERR

\* lines 627-632: the credential is freed.  cv: creds_valid as read.
FreeCreds(r, cv) ==
    IF creds = "caller"
    THEN [r EXCEPT !.caller_free = @ + 1]
    ELSE [r EXCEPT !.cred_free = @ + 1,
                   !.cont_free = IF cv # 0 THEN @ + 1 ELSE @]

\* Lines 624-632 without line 631.
CredsAtExit_NotCleared(rv) == creds

\* lines 624-632: *creds as the exit leaves it.
CredsAtExit(rv) == IF rv = 0 THEN creds ELSE NULL

\* lines 652-653
FreeOpts(r) == IF opts # NULL THEN [r EXCEPT !.opt_free = @ + 1] ELSE r

\* lines 620-655.  creds_valid is read at line 628 before anything has
\* assigned it when the exit is reached from the PKINIT block: cv is then
\* any value.
Finish ==
    /\ pc = "finish"
    /\ creds' = CredsAtExit(retval)
    /\ IF retval = 0
       THEN /\ Return(PAM_SUCCESS)
            /\ res' = FreeOpts(res)
            /\ hist' = hist
       ELSE /\ Return(PamMap(retval))
            /\ IF creds # NULL
               THEN /\ hist' = [hist EXCEPT !.assigned = TRUE]
                    /\ \E cv \in (IF creds_valid = UNINIT THEN {0, 1}
                                  ELSE {creds_valid}) :
                          res' = FreeOpts(FreeCreds(res, cv))
               ELSE hist' = hist /\ res' = FreeOpts(res)
    /\ retval' = ret'
    /\ UNCHANGED <<config, ctx, pam_item, errno, retry, success,
                   creds_valid, pass, opts, k5>>

----------------------------------------------------------------------------
(* fast.c: the armor cache of the session *)

\* krb5_cc_destroy: the file is removed and the handle closed.
Destroy(cs, c) ==
    [cs EXCEPT ![c] = [@ EXCEPT !.file = FALSE, !.destroyed = @ + 1]]

\* The steps of cache_init_anonymous in the order it takes them; the last
\* two exist only without krb5_get_init_creds_opt_set_out_ccache.
AnonStages ==
    <<"realm", "principal", "asprintf", "mkstemp", "resolve", "opt_alloc",
      "exchange", "initialize", "store">>

StageNo(stage) == CHOOSE i \in 1..Len(AnonStages) : AnonStages[i] = stage

\* lines 139-142: whether done: destroys the cache.
AnonCleanup(rv, ccache) == rv # 0 /\ ccache # NoCcache

\* pamk5_cache_mkstemp (cache.c) when it succeeds: the uniquely named file
\* of a new cache exists; no handle on it yet, nothing in it.
pamk5_cache_mkstemp(cs) ==
    Append(cs, [file |-> TRUE, resolved |-> FALSE, creds |-> FALSE,
                destroyed |-> 0])

\* Lines 139-142 without line 141: the handle of the destroyed cache stays
\* in *ccache.
AnonResult_Kept(rv, ccache) == ccache

\* lines 139-142: *ccache when cache_init_anonymous returns.
AnonResult(rv, ccache) == IF AnonCleanup(rv, ccache) THEN NoCcache ELSE ccache

\* cache_init_anonymous.  failed: the first step that fails, "none" when
\* all succeed; code: what that step reports; cur: what *ccache holds at
\* the call.  Yields the return value,
\* *ccache and the caches.  pamk5_cache_mkstemp creates the file of a new
\* cache, krb5_cc_resolve gives the handle on it, and the credentials are
\* in it once the exchange (with set_out_ccache) or krb5_cc_store_cred has
\* succeeded.
cache_init_anonymous(failed, code, cur) ==
    LET fails(stage) == failed # "none" /\ StageNo(failed) <= StageNo(stage)
        new == Len(caches) + 1
        temp == pamk5_cache_mkstemp(caches)
        stored == IF fbuild.out_ccache THEN ~fails("exchange")
                  ELSE ~fails("store")
        made == [temp EXCEPT ![new] = [@ EXCEPT !.resolved = TRUE,
                                                !.creds = stored]]
        rv == IF failed = "none" THEN 0 ELSE code
    IN  IF ~fbuild.anon
        THEN \* lines 36-40: *ccache is not written
             [retval |-> KRB5KDC_ERR_BADOPTION, ccache |-> cur,
              caches |-> caches]
        ELSE IF fails("mkstemp")
        THEN [retval |-> rv, ccache |-> NoCcache, caches |-> caches]
        ELSE IF fails("resolve")
        THEN [retval |-> rv, ccache |-> NoCcache,
              caches |-> temp]
        ELSE IF AnonCleanup(rv, new)
        THEN [retval |-> rv, ccache |-> AnonResult(rv, new),
              caches |-> Destroy(made, new)]
        ELSE [retval |-> rv, ccache |-> new, caches |-> made]

\* The steps that can fail in this build.
FailingStages ==
    {AnonStages[i] : i \in 1..Len(AnonStages)}
        \ (IF fbuild.out_ccache THEN {"initialize", "store"} ELSE {})

\* What a failing step of cache_init_anonymous reports.
FastCodes == {ENOMEM, EACCES, KRB5_KDC_UNREACH}

AllIdle == \A q \in Procs : fp[q].pc = "idle"

\* The call ends: lines 208, 234-237.
FastReturn(call) == [call EXCEPT !.pc = "idle", !.hend = anon_fast_ccache]

\* pamk5_fast_setup is entered; without
\* krb5_get_init_creds_opt_set_fast_ccache_name it has no body (lines
\* 164-168).
FastEnter(p) ==
    /\ fp[p].pc = "idle"
    /\ ncalls < MaxCalls
    /\ ncalls' = ncalls + 1
    /\ LET call == [IdleCall EXCEPT !.seq = ncalls', !.h0 = anon_fast_ccache,
                                    !.ccache = UNINIT]
       IN  fp' = [fp EXCEPT ![p] = IF fbuild.fast
                                   THEN [call EXCEPT !.pc = "conf"]
                                   ELSE FastReturn(call)]
    /\ UNCHANGED <<auth, fbuild, fcfg, anon_fast_ccache, caches>>

\* A call on a session where no other call is in progress.
FastCall(p) == AllIdle /\ FastEnter(p)

\* lines 182-203: the configured cache.  resolve_ok: krb5_cc_resolve;
\* princ_ok: krb5_cc_get_principal.
FastConfigured(p) ==
    /\ fp[p].pc = "conf"
    /\ \E resolve_ok \in BOOLEAN, princ_ok \in BOOLEAN :
          LET valid == fcfg.fast_ccache # NULL /\ resolve_ok /\ princ_ok
          IN  fp' = [fp EXCEPT ![p] =
                        [@ EXCEPT !.pc = "anon",
                                  !.cache = IF fcfg.fast_ccache # NULL
                                            THEN ConfName ELSE NoName,
                                  !.valid = valid,
                                  !.conf_ok = valid]]
    /\ UNCHANGED <<auth, fbuild, fcfg, anon_fast_ccache, caches, ncalls>>

\* Line 204 without the test of valid: a valid configured cache does not
\* keep the anonymous one from being made.
NeedAnon_IgnoreValid(valid, anon_fast) == anon_fast

\* Line 204 with a test of the stored handle: no new cache while one is
\* stored.
NeedAnon_UnlessStored(valid, anon_fast) ==
    ~valid /\ anon_fast /\ anon_fast_ccache = NoCcache

\* line 204: whether an anonymous cache is made.
NeedAnon(valid, anon_fast) == ~valid /\ anon_fast

\* lines 204-209: cache_init_anonymous and the return when it fails.
FastAnon(p) ==
    /\ fp[p].pc = "anon"
    /\ IF NeedAnon(fp[p].valid, fcfg.anon_fast)
       THEN \E failed \in FailingStages \cup {"none"}, code \in FastCodes :
               LET r == cache_init_anonymous(failed, code, fp[p].ccache)
                   call == [fp[p] EXCEPT !.tried_anon = TRUE,
                                         !.retval = r.retval,
                                         !.ccache = r.ccache]
               IN  /\ caches' = r.caches
                   /\ fp' = [fp EXCEPT ![p] =
                                IF r.retval # 0
                                THEN FastReturn(call)
                                ELSE [call EXCEPT !.pc = "check",
                                                  !.made = r.ccache]]
       ELSE /\ fp' = [fp EXCEPT ![p] = [@ EXCEPT !.pc = "set"]]
            /\ UNCHANGED caches
    /\ UNCHANGED <<auth, fbuild, fcfg, anon_fast_ccache, ncalls>>

\* line 210: the stored handle is read and tested.
FastCheck(p) ==
    /\ fp[p].pc = "check"
    /\ fp' = [fp EXCEPT ![p] =
                 [@ EXCEPT !.seen = anon_fast_ccache,
                           !.pc = IF anon_fast_ccache # NoCcache
                                  THEN "destroy" ELSE "store"]]
    /\ UNCHANGED <<auth, fbuild, fcfg, anon_fast_ccache, caches, ncalls>>

\* Line 211 destroying the new cache instead of the stored one.
DestroyedAtReplace_New(stored, new) == new

\* line 211: the cache that is destroyed.
DestroyedAtReplace(stored, new) == stored

\* line 211: krb5_cc_destroy of the stored cache.  The handle is not
\* protected against another call writing it: the argument is the value line
\* 210 read or the value the field holds now.
FastDestroy(p) ==
    /\ fp[p].pc = "destroy"
    /\ \E h \in {fp[p].seen, anon_fast_ccache} :
          LET c == DestroyedAtReplace(h, fp[p].ccache)
          IN  /\ caches' = Destroy(caches, c)
              /\ fp' = [fp EXCEPT ![p] =
                           [@ EXCEPT !.pc = "store",
                                     !.destroyed = Append(@, c)]]
    /\ UNCHANGED <<auth, fbuild, fcfg, anon_fast_ccache, ncalls>>

\* line 212
FastStore(p) ==
    /\ fp[p].pc = "store"
    /\ anon_fast_ccache' = fp[p].ccache
    /\ fp' = [fp EXCEPT ![p] = [@ EXCEPT !.pc = "name"]]
    /\ UNCHANGED <<auth, fbuild, fcfg, caches, ncalls>>

\* lines 213-237; "name" is line 213, reached with a new cache stored,
\* "set" is line 222.  name_ok: krb5_cc_get_full_name of the new cache;
\* set_ok: krb5_get_init_creds_opt_set_fast_ccache_name.
FastSet(p) ==
    /\ fp[p].pc \in {"name", "set"}
    /\ \E name_ok \in BOOLEAN, set_ok \in BOOLEAN :
          LET anon == fp[p].pc = "name"
              valid == IF anon THEN name_ok ELSE fp[p].valid
              cache == IF anon /\ name_ok THEN AnonName(fp[p].ccache)
                       ELSE fp[p].cache
              call == [fp[p] EXCEPT !.valid = valid, !.cache = cache]
          IN  fp' = [fp EXCEPT ![p] =
                        IF ~valid
                        THEN FastReturn(call)
                        ELSE FastReturn([call EXCEPT
                                           !.asked = cache,
                                           !.opt = IF set_ok THEN cache
                                                   ELSE NoName])]
    /\ UNCHANGED <<auth, fbuild, fcfg, anon_fast_ccache, caches, ncalls>>

\* A session: any build of fast.c, any configuration, no armor cache yet.
InitFast ==
    /\ fbuild \in FastBuilds
    /\ fcfg \in [fast_ccache : {NULL, "conf"}, anon_fast : BOOLEAN]
    /\ NoArmor
    /\ build = [pkinit |-> FALSE, hx509 |-> FALSE]
    /\ args = [ctx |-> TRUE, use_pkinit |-> FALSE, try_pkinit |-> FALSE,
               try_first_pass |-> FALSE, use_first_pass |-> FALSE,
               use_authtok |-> FALSE, search_k5login |-> FALSE,
               prompt_princ |-> FALSE, realm |-> NullStr]
    /\ service = NULL
    /\ ctx = [name |-> UserName, princ |-> NullPrinc]
    /\ pam_item = [s \in Slots |-> NULL]
    /\ k5file = <<>>
    /\ creds = NULL
    /\ Started

\* The steps of a call once it is entered.
FastStep(p) ==
    \/ FastConfigured(p)
    \/ FastAnon(p)
    \/ FastCheck(p)
    \/ FastDestroy(p)
    \/ FastStore(p)
    \/ FastSet(p)

\* Calls one after the other.
NextFast == \E p \in Procs : FastCall(p) \/ FastStep(p)

\* Calls that interleave.
NextFastRace == \E p \in Procs : FastEnter(p) \/ FastStep(p)

----------------------------------------------------------------------------

Next ==
    \/ Entry
    \/ ParseName
    \/ PkinitTry
    \/ AllocCreds
    \/ OptAlloc
    \/ GetPass
    \/ LoopHead
    \/ AcquireDirect
    \/ K5Begin
    \/ K5Line
    \/ LoopTail
    \/ Verify
    \/ Finish

Spec == Init /\ [][Next]_vars

\* A call in which every external call returns: a step that can be taken
\* is taken.
SpecLive == Init /\ [][Next]_vars /\ WF_vars(Next)

SpecK5 == InitK5 /\ [][Next]_vars

SpecParse == InitParse /\ [][Next]_vars

SpecFast == InitFast /\ [][NextFast]_vars

SpecFastRace == InitFast /\ [][NextFastRace]_vars

----------------------------------------------------------------------------
(* Properties of pamk5_password_auth *)

Returned == pc = "returned"

\* The codes pamk5_password_auth hands to its caller.
CallerCodes ==
    {PAM_SUCCESS, PAM_SERVICE_ERR, PAM_USER_UNKNOWN, PAM_NEW_AUTHTOK_REQD,
     PAM_ACCT_EXPIRED, PAM_AUTHINFO_UNAVAIL, PAM_AUTH_ERR}

\* PKINIT is built in and configured.
PkinitConfigured == build.pkinit /\ (args.use_pkinit \/ args.try_pkinit)

\* pkinit_auth has returned "no token" or "no slot".
NoTokenOrSlot ==
    hist.pkinit = 1 /\ hist.pkret \in {HX509_NO_TOKEN_CODE, HX509_NO_SLOT_CODE}

\* No stored password was read, no password asked for, no password exchanged.
NoPasswordUse == hist.reads = 0 /\ hist.prompts = 0 /\ hist.exch = 0

\* C1: the call returns PAM_SUCCESS only if some credential-acquisition
\* exchange of the call returned success and, when service is NULL,
\* verify_creds then returned success.
C1_SuccessOnlyAfterAcquisition ==
    (Returned /\ ret = PAM_SUCCESS)
        => (hist.acq_ok /\ (service = NULL => hist.ver_ok))

\* C2: with search_k5login and a readable .k5login owned by neither root nor
\* the account, the call returns PAM_AUTH_ERR with *creds NULL, whatever
\* errno holds.
C2_ForeignOwnerIsAuthErr ==
    (Returned /\ hist.badowner) => (ret = PAM_AUTH_ERR /\ creds = NULL)

\* C3: whenever the call returns a code other than PAM_SUCCESS, either it
\* never wrote *creds or *creds is NULL.
C3_NoCredentialOnFailure ==
    (Returned /\ ret # PAM_SUCCESS) => (~hist.assigned \/ creds = NULL)

C3_Witness ==
    Returned /\ ret # PAM_SUCCESS /\ hist.acq_ok /\ hist.assigned /\ creds = NULL

\* C4: the value returned is one of PAM_SUCCESS, PAM_SERVICE_ERR and the five
\* mapped codes; and when the acquisition or verification step the call ended
\* on returned a non-zero code e, the value returned is decided by e alone:
\* PAM_USER_UNKNOWN for KRB5KDC_ERR_C_PRINCIPAL_UNKNOWN, PAM_NEW_AUTHTOK_REQD
\* for KRB5KDC_ERR_KEY_EXP, PAM_ACCT_EXPIRED for KRB5KDC_ERR_NAME_EXP,
\* PAM_AUTHINFO_UNAVAIL for KRB5_KDC_UNREACH and KRB5_REALM_CANT_RESOLVE,
\* PAM_AUTH_ERR for every other code.
C4_ErrorMapping ==
    Returned =>
        /\ ret \in CallerCodes
        /\ hist.lastk5 # 0 =>
              LET e == hist.lastk5
              IN  /\ e = KRB5KDC_ERR_C_PRINCIPAL_UNKNOWN => ret = PAM_USER_UNKNOWN
                  /\ e = KRB5KDC_ERR_KEY_EXP => ret = PAM_NEW_AUTHTOK_REQD
                  /\ e = KRB5KDC_ERR_NAME_EXP => ret = PAM_ACCT_EXPIRED
                  /\ e \in {KRB5_KDC_UNREACH, KRB5_REALM_CANT_RESOLVE}
                        => ret = PAM_AUTHINFO_UNAVAIL
                  /\ e \notin {KRB5KDC_ERR_C_PRINCIPAL_UNKNOWN,
                               KRB5KDC_ERR_KEY_EXP, KRB5KDC_ERR_NAME_EXP,
                               KRB5_KDC_UNREACH, KRB5_REALM_CANT_RESOLVE}
                        => ret = PAM_AUTH_ERR

C4_Witness ==
    /\ Returned
    /\ hist.rounds = 2
    /\ hist.lastk5 = KRB5_REALM_CANT_RESOLVE
    /\ ret = PAM_AUTHINFO_UNAVAIL

\* C5: verify_creds is called exactly once in every call with service NULL
\* in which an acquisition succeeded, and never when service is non-NULL;
\* once it has failed the call makes no further acquisition or prompt, and
\* it returns a code other than PAM_SUCCESS with *creds NULL.
C5_VerifyOnceAndTerminal ==
    /\ [](/\ hist.verify <= 1
          /\ service # NULL => hist.verify = 0
          /\ (Returned /\ service = NULL /\ hist.acq_ok) => hist.verify = 1
          /\ (Returned /\ hist.verify = 1 /\ ~hist.ver_ok)
                => (ret # PAM_SUCCESS /\ creds = NULL))
    /\ [][(hist.verify = 1 /\ ~hist.ver_ok)
             => /\ hist'.prompts = hist.prompts
                /\ hist'.reads = hist.reads
                /\ hist'.exch = hist.exch
                /\ hist'.pkinit = hist.pkinit
                /\ hist'.verify = hist.verify]_vars

C5_Witness ==
    /\ Returned
    /\ service = NULL
    /\ hist.acq_ok
    /\ hist.verify = 1
    /\ ~hist.ver_ok
    /\ ret # PAM_SUCCESS
    /\ creds = NULL

\* C6: in a build with PKINIT, with use_pkinit or try_pkinit set, pkinit_auth
\* runs before any password is read or asked for, and what it returns decides
\* the next step: 0 leads to the verification step, "no token" or "no slot"
\* with use_pkinit unset leads to the password path, everything else to the
\* exit; and except after that fall-through the call uses no password.
C6_PkinitDecides ==
    /\ [](PkinitConfigured =>
             /\ hist.pkinit = 0 => NoPasswordUse
             /\ (hist.pkinit = 1 /\ ~(NoTokenOrSlot /\ ~args.use_pkinit))
                   => (NoPasswordUse /\ pc \in {"done", "finish", "returned"}))
    /\ [][(PkinitConfigured /\ pc = "pkinit") =>
             /\ hist'.pkinit = 1
             /\ pc' = IF hist'.pkret = 0 THEN "done"
                      ELSE IF NoTokenOrSlot' /\ ~args.use_pkinit THEN "alloc"
                      ELSE "done"]_vars

C6_Witness ==
    /\ PkinitConfigured
    /\ NoTokenOrSlot
    /\ ~args.use_pkinit
    /\ hist.prompts = 1
    /\ hist.exch = 1
    /\ Returned

\* C7 as stated: with use_pkinit set, PKINIT built in and "no token" or "no
\* slot" from pkinit_auth, the call returns PAM_AUTHINFO_UNAVAIL and attempts
\* no password authentication.
C7_NoTokenIsUnavailable ==
    (Returned /\ build.pkinit /\ args.use_pkinit /\ NoTokenOrSlot)
        => (ret = PAM_AUTHINFO_UNAVAIL /\ NoPasswordUse)

\* C7, amended: with use_pkinit set, PKINIT built in and "no token" or "no
\* slot" from pkinit_auth, the call returns PAM_AUTH_ERR and attempts no
\* password authentication.
C7_NoTokenIsAuthErr ==
    (Returned /\ build.pkinit /\ args.use_pkinit /\ NoTokenOrSlot)
        => (ret = PAM_AUTH_ERR /\ NoPasswordUse)

C7_Witness ==
    /\ Returned
    /\ build.pkinit
    /\ args.use_pkinit
    /\ NoTokenOrSlot
    /\ ret = PAM_AUTH_ERR

\* C8: in a build without PKINIT, with use_pkinit set, once the principal is
\* resolved the call returns PAM_AUTHINFO_UNAVAIL having allocated no
\* credential, read or asked for no password and made no exchange.
C8_MandatoryPkinitNotBuilt ==
    (Returned /\ ~build.pkinit /\ args.use_pkinit /\ ctx.princ # NullPrinc)
        => /\ ret = PAM_AUTHINFO_UNAVAIL
           /\ res.cred_alloc = 0
           /\ NoPasswordUse
           /\ hist.pkinit = 0
           /\ hist.verify = 0

C8_Witness ==
    /\ Returned
    /\ ~build.pkinit
    /\ args.use_pkinit
    /\ ctx.princ # NullPrinc
    /\ ret = PAM_AUTHINFO_UNAVAIL

\* C9: with use_authtok and no stored password in the request's slot, the
\* call returns PAM_SERVICE_ERR, asks for no password and makes no password
\* exchange.
C9_NoStoredPasswordIsServiceErr ==
    (Returned /\ hist.nostored)
        => (ret = PAM_SERVICE_ERR /\ hist.prompts = 0 /\ hist.exch = 0)

\* C10: once a round of the password loop has succeeded, or has failed with
\* a code other than KRB5KRB_AP_ERR_BAD_INTEGRITY, the call makes no further
\* prompt and no further round, whatever the first-pass settings.
C10_LoopStops ==
    [][hist.closed
          => /\ hist'.prompts = hist.prompts
             /\ hist'.rounds = hist.rounds
             /\ hist'.exch = hist.exch]_vars

C10_Witness ==
    /\ Returned
    /\ args.try_first_pass
    /\ hist.closed
    /\ hist.prompts = 0
    /\ hist.rounds = 1
    /\ hist.lastk5 = KRB5_KDC_UNREACH

\* The call has returned from the password loop on a round that failed with
\* KRB5KRB_AP_ERR_BAD_INTEGRITY.
EndedOnMismatch ==
    /\ Returned
    /\ hist.rounds >= 1
    /\ hist.verify = 0
    /\ hist.lastk5 = KRB5KRB_AP_ERR_BAD_INTEGRITY

\* C11 as stated: with try_first_pass every round that fails with
\* KRB5KRB_AP_ERR_BAD_INTEGRITY is followed by a prompt and another round, so
\* the call never ends on such a round.
C11_EveryMismatchReprompts == args.try_first_pass => ~EndedOnMismatch

\* C11, amended: with try_first_pass a round on the stored password that
\* fails with KRB5KRB_AP_ERR_BAD_INTEGRITY goes back to the top of the loop
\* for one prompt; a round on a prompted password is the last one, so a call
\* has at most one prompt and two rounds, and one that ends on a mismatch has
\* prompted once.
C11_OneReprompt ==
    /\ [](/\ hist.prompts <= 1
          /\ hist.rounds <= 2
          /\ (args.try_first_pass /\ EndedOnMismatch) => hist.prompts = 1)
    /\ [][(/\ pc = "after"
           /\ success # PAM_SUCCESS
           /\ retval = KRB5KRB_AP_ERR_BAD_INTEGRITY)
             => pc' = IF args.try_first_pass /\ hist.prompts = 0
                      THEN "loop" ELSE "done"]_vars

C11_Witness ==
    /\ args.try_first_pass
    /\ EndedOnMismatch
    /\ hist.prompts = 1
    /\ hist.rounds = 2
    /\ hist.exch = 2

\* k5login_password_auth has returned to pamk5_password_auth.
K5Returned == args.search_k5login /\ pc = "after"

\* The lines of the trust file that name a principal, in file order.
CandList(f) == SelectSeq(f, LAMBDA l : l.kind = "candidate")

\* The current call of k5login_password_auth went through the lines of a
\* file owned by root or the account.
K5OwnedFile == k5.read /\ ~k5.foreign

\* C12: over a correctly owned trust file with candidates 1..N,
\* k5login_password_auth makes one exchange per candidate in file order and
\* stops at the first that succeeds, K: it returns PAM_SUCCESS with *retval
\* 0, ctx->princ is candidate K, the previous principal and the candidates
\* before K are released, and no exchange is made for K+1..N; when none
\* succeeds every candidate was tried and released and ctx->princ is as it
\* was.
C12_FirstCandidateWins ==
    LET cands == CandList(k5file)
        n == Len(k5.tried)
    IN  /\ (K5OwnedFile /\ pc \in {"k5line", "after"})
              => /\ n <= Len(cands)
                 /\ \A i \in 1..n : k5.tried[i].princ = cands[i].princ
                 /\ \A i \in 1..(n - 1) : ~k5.tried[i].ok
                 /\ hist.exch = k5.exch0 + n
        /\ (K5OwnedFile /\ K5Returned)
              => IF n > 0 /\ k5.tried[n].ok
                 THEN /\ success = PAM_SUCCESS
                      /\ retval = 0
                      /\ ctx.princ = cands[n].princ
                      /\ k5.freed = [i \in 1..n |->
                                        IF i < n THEN cands[i].princ
                                        ELSE k5.princ0]
                 ELSE /\ success = PAM_AUTH_ERR
                      /\ n = Len(cands)
                      /\ ctx.princ = k5.princ0
                      /\ k5.freed = [i \in 1..n |-> cands[i].princ]

C12_Witness ==
    /\ K5OwnedFile
    /\ K5Returned
    /\ Len(CandList(k5file)) = 2
    /\ Len(k5.tried) = 1
    /\ k5.tried[1].ok
    /\ success = PAM_SUCCESS
    /\ ctx.princ = CandList(k5file)[1].princ
    /\ ctx.princ # k5.princ0

\* C13: for a readable trust file owned by neither the account nor root,
\* k5login_password_auth goes through no line, makes no exchange for a
\* candidate or for the resolved principal, leaves ctx->princ alone and
\* returns PAM_AUTH_ERR.
C13_ForeignFileNotUsed ==
    /\ k5.foreign => (~k5.read /\ pc # "k5line")
    /\ (K5Returned /\ k5.foreign)
          => /\ success = PAM_AUTH_ERR
             /\ k5.tried = <<>>
             /\ hist.exch = k5.exch0
             /\ ctx.princ = k5.princ0

C13_Witness ==
    /\ K5Returned
    /\ k5.foreign
    /\ Len(CandList(k5file)) = 2
    /\ success = PAM_AUTH_ERR
    /\ hist.exch = 0

\* C14: over a correctly owned trust file with no usable candidate,
\* k5login_password_auth makes no exchange and returns PAM_AUTH_ERR with
\* *retval KRB5KRB_AP_ERR_BAD_INTEGRITY; a call of pamk5_password_auth whose
\* last search was such a one returns PAM_AUTH_ERR, after one prompt when
\* try_first_pass is set.
C14_NoCandidateIsMismatch ==
    LET none == K5OwnedFile /\ CandList(k5file) = <<>>
    IN  /\ (K5Returned /\ none)
              => /\ hist.exch = k5.exch0
                 /\ success = PAM_AUTH_ERR
                 /\ retval = KRB5KRB_AP_ERR_BAD_INTEGRITY
        /\ (Returned /\ none)
              => /\ ret = PAM_AUTH_ERR
                 /\ hist.exch = k5.exch0
                 /\ hist.rounds <= 2
                 /\ args.try_first_pass => hist.prompts = 1

C14_Witness ==
    /\ Returned
    /\ K5OwnedFile
    /\ Len(k5file) = 2
    /\ CandList(k5file) = <<>>
    /\ args.try_first_pass
    /\ hist.rounds = 2
    /\ hist.prompts = 1
    /\ ret = PAM_AUTH_ERR

\* C15: whenever the call returns a code other than PAM_SUCCESS, what it
\* allocated is released exactly once: the credential structure, the option
\* set, and the contents of a credential an exchange filled in.
C15_ReleasedOnFailure ==
    (Returned /\ ret # PAM_SUCCESS)
        => /\ res.cred_free = res.cred_alloc
           /\ res.opt_free = res.opt_alloc
           /\ res.cont_fill > 0 => res.cont_free = res.cont_fill

\* parse_name has just returned success.
Parsed == pc = "pkinit"

\* C16 as stated: when the account name has no '@', a realm is configured
\* and parse_name succeeds, the principal is in the configured realm,
\* whatever prompt_princ is and whatever the prompt handed back.
C16_RealmOfRawName ==
    (Parsed /\ ~HasAt(hist.parse.name0) /\ args.realm # NullStr)
        => ctx.princ.realm = args.realm

\* C16, amended: when a realm is configured and parse_name succeeds, the
\* principal is in the configured realm if the name that is parsed (what the
\* prompt handed back, or the account name when there is no prompt or it
\* handed back nothing) has no '@'; a name with an '@' keeps the realm it
\* names.
C16_RealmOfParsedName ==
    (Parsed /\ args.realm # NullStr)
        => IF HasAt(hist.parse.user)
           THEN ctx.princ = ParsedPrincipal(hist.parse.user)
           ELSE /\ ctx.princ.realm = args.realm
                /\ ctx.princ.name = hist.parse.user

C16_Witness ==
    /\ Parsed
    /\ args.realm # NullStr
    /\ args.prompt_princ
    /\ hist.parse.name0 = UserName
    /\ hist.parse.user = <<"b">>
    /\ ctx.princ = [name |-> <<"b">>, realm |-> args.realm]

\* C17 as stated: when the account name has an '@' and parse_name succeeds,
\* the account name is the local name krb5_aname_to_localname gave if that
\* call succeeded and is unchanged if it failed; an account name without
\* '@' is never changed.
C17_LocalName ==
    Parsed =>
        IF HasAt(hist.parse.name0)
        THEN /\ hist.parse.map # "none"
             /\ hist.parse.map = "ok" => ctx.name = hist.parse.kuser
             /\ hist.parse.map = "fail" => ctx.name = hist.parse.name0
        ELSE ctx.name = hist.parse.name0

\* C17, amended: as C17, but the account name becomes the local name only
\* if strdup could copy it; when strdup fails the account name is unchanged
\* and parse_name reports success, as when the lookup fails.
C17_LocalNameIfCopied ==
    /\ [](Parsed =>
             IF HasAt(hist.parse.name0)
             THEN /\ hist.parse.map # "none"
                  /\ (hist.parse.map = "ok" /\ hist.parse.dup)
                        => ctx.name = hist.parse.kuser
                  /\ (hist.parse.map = "fail" \/ ~hist.parse.dup)
                        => ctx.name = hist.parse.name0
             ELSE ctx.name = hist.parse.name0)
    /\ [][(pc = "parse" /\ hist'.parse.map # "none" /\ ~hist'.parse.dup)
             => (pc' = "pkinit" /\ ctx'.name = ctx.name)]_vars

C17_Witness ==
    /\ Parsed
    /\ HasAt(hist.parse.name0)
    /\ hist.parse.map = "ok"
    /\ hist.parse.dup
    /\ ctx.name = <<"m">>
    /\ ctx.name # hist.parse.name0

\* Call p of pamk5_fast_setup has run to its end, in a build with FAST.
FastDone(p) == fbuild.fast /\ fp[p].pc = "idle" /\ fp[p].seq > 0

\* Call p began with a cache stored on the session, found no valid
\* configured cache and anonymous FAST is configured.
LaterAnonCall(p) ==
    FastDone(p) /\ fp[p].h0 # NoCcache /\ ~fp[p].conf_ok /\ fcfg.anon_fast

\* Cache c exists with credentials in it and was never destroyed.
Live(c) ==
    /\ caches[c].file
    /\ caches[c].resolved
    /\ caches[c].creds
    /\ caches[c].destroyed = 0

C19_LastWriterWins ==
    (AllIdle /\ \A p \in Procs : FastDone(p) /\ fp[p].made # NoCcache)
        => /\ anon_fast_ccache \in {fp[p].made : p \in Procs}
           /\ \A c \in 1..Len(caches) :
                 caches[c].resolved
                     => IF c = anon_fast_ccache
                        THEN Live(c)
                        ELSE caches[c].destroyed = 1

\* C20: between calls the handle is NULL or names a cache that exists, holds
\* the anonymous credentials and was not destroyed; and after a call that
\* began with no cache stored and obtained one, the handle is that cache.
C20_HandleNamesLiveCache ==
    AllIdle
        => /\ anon_fast_ccache # NoCcache => Live(anon_fast_ccache)
           /\ \A p \in Procs :
                 (/\ FastDone(p)
                  /\ fp[p].seq = ncalls
                  /\ fp[p].h0 = NoCcache
                  /\ fp[p].made # NoCcache)
                     => (anon_fast_ccache = fp[p].made /\ Live(fp[p].made))

C20_Witness ==
    /\ AllIdle
    /\ ncalls >= 2
    /\ anon_fast_ccache # NoCcache
    /\ Live(anon_fast_ccache)
    /\ \E c \in 1..Len(caches) : caches[c].creds /\ caches[c].destroyed = 1

\* C21: a call that finds the configured cache valid uses it as it is: it
\* calls the setter of the FAST option with the configured name (and the
\* option is that name unless the setter fails), does not call
\* cache_init_anonymous even with anon_fast set, and from the moment the
\* cache is found valid changes neither the handle nor any cache.
C21_ConfiguredCacheAsIs ==
    /\ [](\A p \in Procs :
             (FastDone(p) /\ fp[p].conf_ok)
                 => /\ ~fp[p].tried_anon
                    /\ fp[p].made = NoCcache
                    /\ fp[p].destroyed = <<>>
                    /\ fp[p].hend = fp[p].h0
                    /\ fp[p].asked = ConfName
                    /\ fp[p].opt \in {ConfName, NoName})
    /\ [][\A p \in Procs :
             (fp[p].conf_ok /\ fp[p].pc # "idle")
                 => (caches' = caches
                     /\ anon_fast_ccache' = anon_fast_ccache)]_vars

C21_Witness ==
    \E p \in Procs :
        /\ FastDone(p)
        /\ fp[p].conf_ok
        /\ fcfg.anon_fast
        /\ fp[p].h0 # NoCcache
        /\ fp[p].opt = ConfName
        /\ anon_fast_ccache = fp[p].h0
        /\ Live(fp[p].h0)

\* C22: whenever pkinit_auth returns a non-zero code, the code is that of
\* the step that failed, the option set it allocated has been freed and
\* *creds is NULL.
C22_PkinitFailureReleases ==
    (hist.pkinit > 0 /\ hist.pkret # 0)
        => /\ hist.pkret = hist.pk.code
           /\ hist.pk.open = 0
           /\ hist.pk.creds = NULL

\* Call p ended with no valid armor cache: the configured one was absent or
\* invalid, and anonymous FAST is off or cache_init_anonymous failed.
NoArmorCall(p) ==
    /\ FastDone(p)
    /\ ~fp[p].conf_ok
    /\ (~fcfg.anon_fast \/ (fp[p].tried_anon /\ fp[p].retval # 0))

\* Call p ended on a failure of cache_init_anonymous.
AnonFailed(p) == FastDone(p) /\ fp[p].tried_anon /\ fp[p].retval # 0

\* The FAST option was not touched, the handle is the one the call found and
\* nothing was destroyed.
Untouched(p) ==
    /\ fp[p].asked = NoName
    /\ fp[p].opt = NoName
    /\ fp[p].hend = fp[p].h0
    /\ fp[p].destroyed = <<>>
    /\ fp[p].made = NoCcache

\* C23 as stated: a call that ends with no valid armor cache does not set
\* the FAST option, leaves the handle alone and destroys nothing; and
\* *ccache is NULL whenever cache_init_anonymous returned non-zero.
C23_NoArmorNullCcache ==
    \A p \in Procs :
        /\ NoArmorCall(p) => Untouched(p)
        /\ AnonFailed(p) => fp[p].ccache = NoCcache

\* C23, amended: the same, but *ccache is NULL after a failure only where
\* anonymous FAST is built in; the cache_init_anonymous of a build without
\* it returns KRB5KDC_ERR_BADOPTION and does not write *ccache, which keeps
\* the indeterminate value it had.
C23_NoArmorNoEffect ==
    \A p \in Procs :
        /\ NoArmorCall(p) => Untouched(p)
        /\ AnonFailed(p)
              => IF fbuild.anon
                 THEN fp[p].ccache = NoCcache
                 ELSE /\ fp[p].ccache = UNINIT
                      /\ fp[p].retval = KRB5KDC_ERR_BADOPTION

C23_Witness ==
    \E p \in Procs :
        /\ AnonFailed(p)
        /\ fbuild.anon
        /\ fp[p].h0 # NoCcache
        /\ Live(fp[p].h0)
        /\ \E c \in 1..Len(caches) : c # fp[p].h0 /\ caches[c].destroyed = 1

\* The slot the claim names for this call, and the other one.
ClaimedSlot == IF service = NULL THEN PAM_AUTHTOK ELSE PAM_OLDAUTHTOK

OtherSlot == IF service = NULL THEN PAM_OLDAUTHTOK ELSE PAM_AUTHTOK

\* A prompt was issued and the password did not reach the store: the prompt
\* or pam_set_item failed.
PromptLost == hist.prompts > 0 /\ pam_item[ClaimedSlot] # "typed"

K5AllFailed ==
    /\ args.search_k5login
    /\ K5OwnedFile
    /\ k5.tried # <<>>
    /\ \A i \in 1..Len(k5.tried) : ~k5.tried[i].ok

\* The error of the last candidate attempted.
K5LastCode == k5.tried[Len(k5.tried)].code

C26_Terminates ==
    /\ <>Returned
    /\ [](hist.prompts <= 1 /\ hist.rounds <= 2)
    /\ [](hist.rounds = 2
             => (args.try_first_pass /\ hist.reads = 1 /\ hist.prompts = 1))
    /\ [][(pc = "after" /\ pc' = "loop")
             => /\ args.try_first_pass
                /\ hist.rounds = 1
                /\ hist.prompts = 0
                /\ pass = "prev"
                /\ retval = KRB5KRB_AP_ERR_BAD_INTEGRITY]_vars
    /\ [][(~args.try_first_pass /\ hist.rounds > 0)
             => hist'.prompts = hist.prompts]_vars

C26_Witness ==
    /\ Returned
    /\ args.try_first_pass
    /\ args.search_k5login
    /\ hist.reads = 1
    /\ hist.prompts = 1
    /\ hist.rounds = 2
    /\ hist.exch >= 3

\* C27: between calls of pamk5_fast_setup the only cache file that exists
\* is the one whose handle the session holds: every other file that
\* cache_init_anonymous created has been destroyed, whichever of its steps
\* failed.
C27_NoOrphanedCache ==
    AllIdle
        => \A c \in 1..Len(caches) : caches[c].file => c = anon_fast_ccache

============================================================================
